---- MODULE Spec2Model ----
(***************************************************************************)
(* Model of Dinov2/dinov2_lightning.ipynb: the label-resizing dataset      *)
(* adapter (CustomNYUDataset), collate_fn, the partially frozen            *)
(* DPTLightningModule and the trainer.fit loop with early stopping.        *)
(*                                                                         *)
(* Tensors are modelled by their shape and, per batch item, one scalar     *)
(* standing for the item's content (maps of one constant value).  PIL      *)
(* images carry their size as (width, height); arrays and tensors carry    *)
(* their shape as (height, width).                                         *)
(***************************************************************************)
EXTENDS Integers, Sequences, FiniteSets, TLC

VARIABLES
    slices,     \* train_data_slice / validation_data_slice: the wrapped raw datasets
    datasets,   \* train_dataset / val_dataset: CustomNYUDataset instances, or Unbound
    call,       \* the last call of the adapter or of collate_fn and its outcome
    memo        \* one earlier successful __getitem__ call, remembered: <<>> or
                \* <<[self, idx, value, between]>>, between = calls made since (up to 2)

VARIABLES
    pc,          \* where the notebook is: the next cell, or the phase of trainer.fit
    env,         \* the notebook's other module-level names, each Unbound or Bound(value)
    module,      \* model (the DPTLightningModule): Unbound, or Bound of its parameters
    optimizer,   \* the optimizer configure_optimizers returned, once trainer.fit has asked
    cfg,         \* EarlyStopping's patience and the Trainer's max_epochs
    epoch,       \* trainer.current_epoch
    queue,       \* index batches the running data-loader pass has yet to yield
    acc,         \* the running on_epoch mean of 'validation_loss': sum of value * batch size, and sizes
    metrics,     \* trainer.callback_metrics
    es,          \* the EarlyStopping callback's state
    should_stop, \* trainer.should_stop
    history      \* the epoch means of 'validation_loss' of the epochs run so far

adapterVars == <<slices, datasets, call, memo>>

notebookVars == <<pc, env, module>>

trainerVars == <<optimizer, cfg, epoch, queue, acc, metrics, es, should_stop, history>>

vars == <<slices, datasets, call, memo, pc, env, module, optimizer, cfg, epoch, queue,
          acc, metrics, es, should_stop, history>>

\* A name that is not bound is <<>>; a bound one is <<value>>.
Unbound == <<>>
None == <<>>
Bound(x) == <<x>>

Names == {"train", "val"}

(***************************************************************************)
(* Bounds of the model.                                                    *)
(***************************************************************************)
MaxRows == 2     \* rows of a wrapped dataset
MaxList == 2     \* length of a list handed to collate_fn

(***************************************************************************)
(* Program constants.                                                      *)
(***************************************************************************)
ResizeHeight == 576
ResizeWidth == 736

Px == {0, 1}    \* content scalars of the raw maps

(***************************************************************************)
(* Raw images.  kind "PIL": dims = (width, height).  kind "ndarray":       *)
(* dims = (height, width).                                                 *)
(***************************************************************************)
Img(kind, d1, d2, px) == [kind |-> kind, dims |-> <<d1, d2>>, px |-> px]

\* Image.fromarray: an array of shape (h, w) becomes an image of size (w, h).
FromArray(a) == [kind |-> "PIL", dims |-> <<a.dims[2], a.dims[1]>>, px |-> a.px]

\* np.array(image): an image of size (w, h) becomes an array of shape (h, w).
NpArray(im) == [kind |-> "ndarray", dims |-> <<im.dims[2], im.dims[1]>>, px |-> im.px]

\* isinstance(x, Image.Image) ? x : Image.fromarray(x)
AsPIL(x) == IF x.kind # "PIL" THEN FromArray(x) ELSE x

\* torchvision Resize(size=(h, w)) applied to a PIL image: the result has
\* height h and width w, i.e. PIL size (w, h); resampling a map of one
\* constant value gives that value.
Resize(size, im) == [kind |-> "PIL", dims |-> <<size[2], size[1]>>, px |-> im.px]

\* torch.tensor(array, dtype=torch.float32)
TorchTensor(a) == [shape |-> a.dims, data |-> a.px]

\* The DPT image processor pads height and width up to a multiple of the
\* backbone's patch size.
PadSize(n) == ((n + 13) \div 14) * 14

\* processor(images=[...], return_tensors="pt")["pixel_values"]: one
\* normalised 3-channel tensor per image, stacked: shape (n, 3, H, W).
Processor(proc, images) ==
    [shape |-> <<Len(images), 3, PadSize(images[1].dims[2]), PadSize(images[1].dims[1])>>,
     data  |-> [i \in 1..Len(images) |-> <<proc, images[i].px>>]]

\* Tensor.squeeze(): drops every dimension of size 1.
Squeeze(t) ==
    [shape |-> SelectSeq(t.shape, LAMBDA d : d # 1),
     data  |-> IF t.shape[1] = 1 THEN t.data[1] ELSE t.data]

Raise(err, calls) == [raised |-> TRUE, error |-> err, value |-> None, calls |-> calls]
Return(v, calls) == [raised |-> FALSE, error |-> None, value |-> v, calls |-> calls]

\* The row (1-based) that index idx of a dataset of n rows names.
RowOf(n, idx) == IF idx < 0 THEN idx + n + 1 ELSE idx + 1

\* self.dataset[idx] of the wrapped dataset: a row, or IndexError.  A negative
\* index counts from the end, as for every Python sequence.
DatasetGetItem(ds, idx) ==
    IF idx >= Len(ds) \/ idx < 0 - Len(ds)
    THEN Raise("IndexError", <<"dataset">>)
    ELSE Return(ds[RowOf(Len(ds), idx)], <<"dataset">>)

\* A resize to the adapter's configured output_size (what the docstring of
\* __getitem__ describes).
ResizeTargetOutputSize(self) == self.output_size

\* The resize target __getitem__ passes to Resize: the literal (576, 736).
ResizeTarget(self) == <<ResizeHeight, ResizeWidth>>

\* CustomNYUDataset.__init__
NewCustomNYUDataset(dataset, processor, output_size) ==
    [dataset |-> dataset, processor |-> processor, output_size |-> output_size]

\* CustomNYUDataset.__len__
AdapterLen(self, sl) == Len(sl[self.dataset])

\* A __getitem__ that catches the wrapped dataset's error and retries with
\* the index wrapped into range.
GetItemOfRetrying(self, idx, sl) ==
    LET first == DatasetGetItem(sl[self.dataset], idx)
        got == IF first.raised THEN DatasetGetItem(sl[self.dataset], idx % Len(sl[self.dataset]))
               ELSE first
        item == got.value
        depth_map_resized == Resize(<<ResizeHeight, ResizeWidth>>, AsPIL(item.depth_map))
    IN Return([pixel_values |-> Squeeze(Processor(self.processor, <<AsPIL(item.image)>>)),
               labels |-> TorchTensor(NpArray(depth_map_resized))],
              (IF first.raised THEN <<"dataset">> ELSE <<>>) \o <<"dataset", "processor", "Resize">>)

\* CustomNYUDataset.__getitem__
GetItemOf(self, idx, sl) ==
    LET got == DatasetGetItem(sl[self.dataset], idx) IN
    IF got.raised THEN got
    ELSE
      LET item == got.value
          image == AsPIL(item.image)
          depth_map == AsPIL(item.depth_map)
          processed_images == Processor(self.processor, <<image>>)
          input_tensor == Squeeze(processed_images)
          depth_map_resized == Resize(ResizeTarget(self), depth_map)
          depth_map_tensor == TorchTensor(NpArray(depth_map_resized))
      IN Return([pixel_values |-> input_tensor, labels |-> depth_map_tensor],
                <<"dataset", "processor", "Resize">>)

\* torch.cat in place of torch.stack: the tensors joined along their first
\* dimension, no new leading dimension.
StackCat(ts) ==
    IF Len(ts) = 0 \/ \E i \in 1..Len(ts) : ts[i].shape # ts[1].shape
    THEN Raise("RuntimeError", <<"stack">>)
    ELSE Return([shape |-> <<Len(ts) * ts[1].shape[1]>> \o Tail(ts[1].shape),
                 data  |-> [i \in 1..Len(ts) |-> ts[i].data]], <<"stack">>)

\* torch.stack: a non-empty list of tensors of one shape, stacked along a
\* new leading dimension; RuntimeError otherwise.
Stack(ts) ==
    IF Len(ts) = 0 \/ \E i \in 1..Len(ts) : ts[i].shape # ts[1].shape
    THEN Raise("RuntimeError", <<"stack">>)
    ELSE Return([shape |-> <<Len(ts)>> \o ts[1].shape,
                 data  |-> [i \in 1..Len(ts) |-> ts[i].data]], <<"stack">>)

\* collate_fn
CollateFn(batch) ==
    LET pixel_values == [i \in 1..Len(batch) |-> batch[i].pixel_values]
        labels == [i \in 1..Len(batch) |-> batch[i].labels]
        sp == Stack(pixel_values)
        sl == Stack(labels)
    IN IF sp.raised THEN sp
       ELSE IF sl.raised THEN sl
       ELSE Return([pixel_values |-> sp.value, labels |-> sl.value], <<"stack", "stack">>)

(***************************************************************************)
(* The adapter exercised on its own: any wrapped dataset, any output_size, *)
(* any index, any list handed to collate_fn.                               *)
(***************************************************************************)
NYUSize == <<640, 480>>          \* PIL size of the NYU images
HalfSize == <<320, 240>>

RawItems ==
    {[image |-> Img("PIL", NYUSize[1], NYUSize[2], 0),
      depth_map |-> Img("PIL", NYUSize[1], NYUSize[2], 0)],
     [image |-> Img("PIL", NYUSize[1], NYUSize[2], 1),
      depth_map |-> Img("PIL", HalfSize[1], HalfSize[2], 1)],
     [image |-> Img("ndarray", HalfSize[2], HalfSize[1], 1),
      depth_map |-> Img("ndarray", HalfSize[2], HalfSize[1], 1)]}

RawDatasets == UNION {[1..n -> RawItems] : n \in 1..MaxRows}

OutputSizes == {<<544, 736>>, <<576, 736>>, <<240, 320>>}

Indices == (0 - MaxRows - 1)..MaxRows

NoCall == [op |-> "none"]

\* The adapter under test in SpecAdapter.
Adapters == {"train"}

\* What the remembered call may be after __getitem__(idx) returned r on adapter
\* name: the one remembered before, or this one.
Later(m) == IF m = None THEN m ELSE Bound([m[1] EXCEPT !.between = IF @ < 2 THEN @ + 1 ELSE @])

Remember(name, idx, r) ==
    {Later(memo)} \cup (IF r.raised THEN {}
                        ELSE {Bound([self |-> name, idx |-> idx, value |-> r.value, between |-> 0])})

InitAdapter ==
    /\ \E d \in RawDatasets :
          slices = [n \in Names |-> IF n = "train" THEN d ELSE <<CHOOSE x \in RawItems : x.image.kind = "ndarray">>]
    /\ datasets = [n \in Names |-> Unbound]
    /\ call = NoCall
    /\ memo = None
    /\ pc = "adapter"
    /\ env = <<>>
    /\ module = Unbound
    /\ optimizer = Unbound
    /\ cfg = <<>>
    /\ epoch = 0
    /\ queue = <<>>
    /\ acc = <<>>
    /\ metrics = <<>>
    /\ es = <<>>
    /\ should_stop = FALSE
    /\ history = <<>>

\* name = CustomNYUDataset(<slice of that name>, processor, output_size)
Construct(name, output_size) ==
    /\ datasets' = [datasets EXCEPT ![name] = Bound(NewCustomNYUDataset(name, "processor", output_size))]
    /\ memo' = IF memo # None /\ memo[1].self = name THEN None ELSE memo
    /\ call' = [op |-> "__init__", self |-> name]
    /\ UNCHANGED slices
    /\ UNCHANGED <<notebookVars, trainerVars>>

\* A __getitem__ that stores the converted PIL images back into the row.
GetItemCaching(name, idx) ==
    /\ datasets[name] # Unbound
    /\ LET r == GetItemOf(datasets[name][1], idx, slices) IN
         /\ call' = [op |-> "__getitem__", self |-> name, idx |-> idx, result |-> r]
         /\ memo' \in Remember(name, idx, r)
         /\ slices' = IF r.raised THEN slices
                      ELSE [slices EXCEPT ![name][RowOf(Len(slices[name]), idx)] =
                               [image |-> AsPIL(@.image), depth_map |-> AsPIL(@.depth_map)]]
    /\ UNCHANGED datasets
    /\ UNCHANGED <<notebookVars, trainerVars>>

\* A __getitem__ that takes the row out of the wrapped dataset.
GetItemConsuming(name, idx) ==
    /\ datasets[name] # Unbound
    /\ LET r == GetItemOf(datasets[name][1], idx, slices) IN
         /\ call' = [op |-> "__getitem__", self |-> name, idx |-> idx, result |-> r]
         /\ memo' \in Remember(name, idx, r)
         /\ slices' = IF r.raised THEN slices
                      ELSE [slices EXCEPT ![name] = SelectSeq(@, LAMBDA x : x # slices[name][RowOf(Len(slices[name]), idx)])]
    /\ UNCHANGED datasets
    /\ UNCHANGED <<notebookVars, trainerVars>>

\* name[idx]
GetItem(name, idx) ==
    /\ datasets[name] # Unbound
    /\ LET r == GetItemOf(datasets[name][1], idx, slices) IN
         /\ call' = [op |-> "__getitem__", self |-> name, idx |-> idx, result |-> r]
         /\ memo' \in Remember(name, idx, r)
    /\ UNCHANGED <<slices, datasets>>
    /\ UNCHANGED <<notebookVars, trainerVars>>

\* len(name)
LenCall(name) ==
    /\ datasets[name] # Unbound
    /\ call' = [op |-> "__len__", self |-> name,
                result |-> Return(AdapterLen(datasets[name][1], slices), <<"dataset">>)]
    /\ memo' = Later(memo)
    /\ UNCHANGED <<slices, datasets>>
    /\ UNCHANGED <<notebookVars, trainerVars>>

\* collate_fn([name[i] for i in idxs])
Collate(name, idxs) ==
    /\ datasets[name] # Unbound
    /\ \A k \in 1..Len(idxs) : idxs[k] < AdapterLen(datasets[name][1], slices)
    /\ LET batch == [k \in 1..Len(idxs) |-> GetItemOf(datasets[name][1], idxs[k], slices).value] IN
         call' = [op |-> "collate_fn", self |-> name, args |-> batch, result |-> CollateFn(batch)]
    /\ memo' = Later(memo)
    /\ UNCHANGED <<slices, datasets>>
    /\ UNCHANGED <<notebookVars, trainerVars>>

IndexLists == UNION {[1..n -> 0..(MaxRows - 1)] : n \in 0..MaxList}

NextAdapter ==
    \/ \E name \in Adapters, s \in OutputSizes : Construct(name, s)
    \/ \E name \in Adapters, idx \in Indices : GetItem(name, idx)
    \/ \E name \in Adapters : LenCall(name)
    \/ \E name \in Adapters, idxs \in IndexLists : Collate(name, idxs)

SpecAdapter == InitAdapter /\ [][NextAdapter]_vars

(***************************************************************************)
(* DPTLightningModule.  The model's parameters are grouped by sub-module,  *)
(* in the order self.model.parameters() yields them; each group carries    *)
(* requires_grad, its value (data; the pretrained value is 0) and its grad *)
(* (None, or Bound of a gradient).                                         *)
(***************************************************************************)
NumLayers == 3      \* encoder layers of the backbone

EncoderLayer == [i \in 1..NumLayers |-> <<"backbone.encoder.layer", i - 1>>]
BackboneEmbeddings == <<"backbone.embeddings", 0>>
BackboneLayerNorm == <<"backbone.layernorm", 0>>
ModelNeck == <<"neck", 0>>
ModelHead == <<"head", 0>>

Parameters == <<BackboneEmbeddings>> \o EncoderLayer \o <<BackboneLayerNorm, ModelNeck, ModelHead>>

Range(seq) == {seq[i] : i \in 1..Len(seq)}

Groups == Range(Parameters)

\* The Python slice seq[-3:].
LastThree(seq) == SubSeq(seq, IF Len(seq) > 3 THEN Len(seq) - 2 ELSE 1, Len(seq))

\* The Python slice seq[-2:].
LastTwo(seq) == SubSeq(seq, IF Len(seq) > 2 THEN Len(seq) - 1 ELSE 1, Len(seq))

\* DPTForDepthEstimation.from_pretrained(...): every parameter trainable.
Pretrained == [g \in Groups |-> [requires_grad |-> TRUE, data |-> 0, grad |-> None]]

\* for param in <S>: param.requires_grad = v
SetRequiresGrad(m, S, v) ==
    [g \in Groups |-> IF g \in S THEN [m[g] EXCEPT !.requires_grad = v] ELSE m[g]]

\* DPTLightningModule.__init__
DPTLightningModuleInit ==
    LET loaded == Pretrained
        frozen == SetRequiresGrad(loaded, Groups, FALSE)
        layers == SetRequiresGrad(frozen, Range(LastTwo(EncoderLayer)), TRUE)
    IN SetRequiresGrad(layers, {ModelHead}, TRUE)

RECURSIVE SumData(_, _)
SumData(m, seq) == IF seq = <<>> THEN 0 ELSE m[Head(seq)].data + SumData(m, Tail(seq))

\* Content scalars of tensors: 0, 1, or NaN.
NaN == 0 - 1

\* The network's prediction for one item: some function of every parameter
\* and of the item's pixel values.
Net(m, c) == (SumData(m, Parameters) + c[2]) % 2

\* Height or width of predicted_depth for an input of height or width d: the
\* backbone cuts d into patches of 14, the neck halves the patch grid
\* (rounding up) and neck and head scale it back up by 32.
OutSize(d) == 32 * (((d \div 14) + 1) \div 2)

\* DPTLightningModule.forward: self.model(x).predicted_depth, of shape
\* (batch, height, width), for x of shape (batch, 3, H, W).
Forward(m, x) ==
    [shape |-> <<x.shape[1], OutSize(x.shape[3]), OutSize(x.shape[4])>>,
     data  |-> [k \in 1..x.shape[1] |-> Net(m, x.data[k])]]

\* Shapes that broadcast against each other: aligned from the right, each
\* pair of sizes equal or one of them 1.
Broadcastable(s, t) ==
    \A i \in 0..((IF Len(s) < Len(t) THEN Len(s) ELSE Len(t)) - 1) :
        \/ s[Len(s) - i] = t[Len(t) - i]
        \/ s[Len(s) - i] = 1
        \/ t[Len(t) - i] = 1

RECURSIVE SumSq(_, _, _)
SumSq(p, l, k) == IF k = 0 THEN 0 ELSE (p[k] - l[k]) * (p[k] - l[k]) + SumSq(p, l, k - 1)

Loss(nan, num, den) == [nan |-> nan, num |-> num, den |-> den]

\* torch.nn.functional.mse_loss(preds, labels): the mean of the squared
\* differences, here the per-item squared differences summed over the batch
\* size; NaN when a label is NaN; RuntimeError when the shapes do not
\* broadcast.
MseLoss(preds, labels) ==
    IF preds.shape # labels.shape /\ ~Broadcastable(preds.shape, labels.shape)
    THEN Raise("RuntimeError", <<"mse_loss">>)
    ELSE LET n == preds.shape[1] IN
         IF \E k \in 1..n : labels.data[k] = NaN
         THEN Return(Loss(TRUE, 0, 1), <<"mse_loss">>)
         ELSE Return(Loss(FALSE, SumSq(preds.data, labels.data, n), n), <<"mse_loss">>)

\* DPTLightningModule.common_step
CommonStep(m, batch) ==
    LET pixel_values == batch.pixel_values
        labels == batch.labels
        preds == Forward(m, pixel_values)
    IN MseLoss(preds, labels)

\* DPTLightningModule.configure_optimizers: Adam over self.parameters().
ConfigureOptimizers(m) == [params |-> Parameters]

(***************************************************************************)
(* The notebook's cells, from "Instantiating DPTLightningModule" on.       *)
(***************************************************************************)
NumTrain == 3       \* rows of train_data_slice
NumVal == 3         \* rows of validation_data_slice
batch_size == 2

NYUItem(p) ==
    [image |-> Img("PIL", NYUSize[1], NYUSize[2], p),
     depth_map |-> Img("PIL", NYUSize[1], NYUSize[2], p)]

\* The rows of the two slices: NYU pairs; the last validation row's depth map
\* may hold a NaN.
TrainRows == [i \in 1..NumTrain |-> NYUItem(i % 2)]
ValRows(last) == [i \in 1..NumVal |-> IF i = NumVal THEN NYUItem(last) ELSE NYUItem(i % 2)]

EnvNames == {"model_output_size", "processor", "train_dataloader", "val_dataloader",
             "test_dataloader"}

NoMetrics == [training_loss |-> None, validation_loss |-> None]

NewEarlyStopping == [wait_count |-> 0, best_score |-> None, stopped_epoch |-> 0, checks |-> 0]

InitNotebook(patience, max_epochs) ==
    /\ \E last \in {1, NaN} : slices = [n \in Names |-> IF n = "train" THEN TrainRows ELSE ValRows(last)]
    /\ datasets = [n \in Names |-> Unbound]
    /\ call = NoCall
    /\ memo = None
    /\ pc = "cell8"
    /\ env = [n \in EnvNames |-> Unbound]
    /\ module = Unbound
    /\ optimizer = Unbound
    /\ cfg = [patience |-> patience, max_epochs |-> max_epochs]
    /\ epoch = 0
    /\ queue = {}
    /\ acc = [sum |-> 0, n |-> 0, nan |-> FALSE]
    /\ metrics = NoMetrics
    /\ es = NewEarlyStopping
    /\ should_stop = FALSE
    /\ history = <<>>

\* model = DPTLightningModule()
Cell8 ==
    /\ pc = "cell8"
    /\ module' = Bound(DPTLightningModuleInit)
    /\ pc' = "cell9"
    /\ call' = [op |-> "DPTLightningModule.__init__"]
    /\ UNCHANGED <<slices, datasets, memo, env, trainerVars>>

DummyInput == [shape |-> <<1, 3, 480, 640>>, data |-> <<<<"randn", 0>>>>]

\* with torch.no_grad(): model_output = model(dummy_input);
\* model_output_size = model_output.shape[-2:]
Cell9 ==
    /\ pc = "cell9"
    /\ LET model_output == Forward(module[1], DummyInput) IN
         /\ env' = [env EXCEPT !["model_output_size"] = Bound(LastTwo(model_output.shape))]
         /\ call' = [op |-> "forward", args |-> DummyInput, result |-> Return(model_output, <<>>)]
    /\ pc' = "cell10"
    /\ UNCHANGED <<slices, datasets, memo, module, trainerVars>>

\* processor = AutoImageProcessor.from_pretrained(...)
Cell10 ==
    /\ pc = "cell10"
    /\ env' = [env EXCEPT !["processor"] = Bound("processor")]
    /\ pc' = "cell11"
    /\ UNCHANGED <<slices, datasets, call, memo, module, trainerVars>>

\* model_output_size = (544, 736); train_dataset = CustomNYUDataset(...);
\* val_dataset = CustomNYUDataset(...)
Cell11 ==
    /\ pc = "cell11"
    /\ LET model_output_size == <<544, 736>> IN
         /\ env' = [env EXCEPT !["model_output_size"] = Bound(model_output_size)]
         /\ datasets' = [n \in Names |->
                          Bound(NewCustomNYUDataset(n, env["processor"][1], model_output_size))]
    /\ pc' = "cell12"
    /\ UNCHANGED <<slices, call, memo, module, trainerVars>>

\* DataLoader(dataset, shuffle=..., collate_fn=collate_fn, batch_size=...)
DataLoader(dataset, shuffle, bs) == [dataset |-> dataset, shuffle |-> shuffle, batch_size |-> bs]

\* Cell 12: batch_size = 2, collate_fn, the two DataLoaders.
Cell12 ==
    /\ pc = "cell12"
    /\ env' = [env EXCEPT !["train_dataloader"] = Bound(DataLoader("train", TRUE, batch_size)),
                          !["val_dataloader"] = Bound(DataLoader("val", FALSE, batch_size))]
    /\ pc' = "cell13"
    /\ UNCHANGED <<slices, datasets, call, memo, module, trainerVars>>

Min(a, b) == IF a < b THEN a ELSE b

\* The index batches a loader may yield next when the indices in rest are
\* still to come: the next batch_size of them in order, or, shuffled, any
\* batch_size of them in any order.
NextBatches(loader, rest) ==
    LET k == Min(loader.batch_size, Cardinality(rest))
        seqs == {q \in [1..k -> rest] : \A i, j \in 1..k : i # j => q[i] # q[j]}
    IN IF loader.shuffle THEN seqs
       ELSE {q \in seqs : /\ \A i, j \in 1..k : i < j => q[i] < q[j]
                          /\ \A x \in rest : x \in Range(q) \/ \A i \in 1..k : q[i] < x}

AllIndices(loader) == 0..(AdapterLen(datasets[loader.dataset][1], slices) - 1)

\* One batch of a loader: dataset[i] for each index, then collate_fn.
FetchBatch(loader, idxs) ==
    LET items == [k \in 1..Len(idxs) |-> GetItemOf(datasets[loader.dataset][1], idxs[k], slices)] IN
    IF \E k \in 1..Len(idxs) : items[k].raised
    THEN items[CHOOSE k \in 1..Len(idxs) : items[k].raised]
    ELSE CollateFn([k \in 1..Len(idxs) |-> items[k].value])

\* batch = next(iter(train_dataloader)); labels = batch['labels']
Cell13 ==
    /\ pc = "cell13"
    /\ \E idxs \in NextBatches(env["train_dataloader"][1], AllIndices(env["train_dataloader"][1])) :
         call' = [op |-> "next(iter(train_dataloader))", args |-> idxs,
                  result |-> FetchBatch(env["train_dataloader"][1], idxs)]
    /\ pc' = "cell15"
    /\ UNCHANGED <<slices, datasets, memo, env, module, trainerVars>>

(***************************************************************************)
(* trainer.fit(model, train_dataloader, val_dataloader) with the           *)
(* EarlyStopping callback: set-up, the sanity check, then per epoch the    *)
(* training batches, the validation batches and the end of the epoch.      *)
(***************************************************************************)
LogEntry(name, value, on_step, on_epoch) ==
    [name |-> name, value |-> value, on_step |-> on_step, on_epoch |-> on_epoch]

\* A training_step that logs under the validation name.
TrainingStepWrongName(m, batch) ==
    LET loss == CommonStep(m, batch) IN
    IF loss.raised THEN [result |-> loss, logged |-> <<>>]
    ELSE [result |-> loss,
          logged |-> <<LogEntry("validation_loss", loss.value, TRUE, FALSE)>>]

\* A training_step that catches a failure of common_step and goes on with a
\* loss of zero.
TrainingStepCatching(m, batch) ==
    LET loss == CommonStep(m, batch)
        caught == IF loss.raised THEN Return(Loss(FALSE, 0, 1), loss.calls) ELSE loss
    IN [result |-> caught,
        logged |-> <<LogEntry("training_loss", caught.value, TRUE, FALSE)>>]

\* DPTLightningModule.training_step: what it returns (or raises) and what it
\* hands to self.log.
TrainingStep(m, batch) ==
    LET loss == CommonStep(m, batch) IN
    IF loss.raised THEN [result |-> loss, logged |-> <<>>]
    ELSE [result |-> loss,
          logged |-> <<LogEntry("training_loss", loss.value, TRUE, FALSE)>>]

\* A validation_step whose loss is the sum of the squared differences, not
\* their mean.
ValidationStepSum(m, batch) ==
    LET loss == CommonStep(m, batch) IN
    IF loss.raised THEN [result |-> loss, logged |-> <<>>]
    ELSE LET total == Return(Loss(loss.value.nan, loss.value.num, 1), loss.calls) IN
         [result |-> total,
          logged |-> <<LogEntry("validation_loss", total.value, FALSE, TRUE)>>]

\* A validation_step that logs its loss under another name than the one the
\* callback monitors.
ValidationStepOtherName(m, batch) ==
    LET loss == CommonStep(m, batch) IN
    IF loss.raised THEN [result |-> loss, logged |-> <<>>]
    ELSE [result |-> loss,
          logged |-> <<LogEntry("val_loss", loss.value, FALSE, TRUE)>>]

\* DPTLightningModule.validation_step
ValidationStep(m, batch) ==
    LET loss == CommonStep(m, batch) IN
    IF loss.raised THEN [result |-> loss, logged |-> <<>>]
    ELSE [result |-> loss,
          logged |-> <<LogEntry("validation_loss", loss.value, FALSE, TRUE)>>]

\* optimizer.zero_grad()
ZeroGrad(m, opt) ==
    [g \in Groups |-> IF g \in Range(opt.params) THEN [m[g] EXCEPT !.grad = None] ELSE m[g]]

\* A backward pass that also marks every parameter as requiring a gradient.
BackwardUnfreezing(m) ==
    [g \in Groups |-> [m[g] EXCEPT !.grad = Bound(1), !.requires_grad = TRUE]]

\* loss.backward(): a gradient for every parameter that requires one.
Backward(m) ==
    [g \in Groups |-> IF m[g].requires_grad THEN [m[g] EXCEPT !.grad = Bound(1)] ELSE m[g]]

\* An optimizer step that moves every parameter it holds.
AdamStepAll(m, opt, d) ==
    [g \in Groups |->
        IF g \in Range(opt.params) THEN [m[g] EXCEPT !.data = (@ + d) % 2] ELSE m[g]]

\* optimizer.step(): Adam skips the parameters whose grad is None and moves
\* the others (by d, the same for all of them here).
AdamStep(m, opt, d) ==
    [g \in Groups |->
        IF g \in Range(opt.params) /\ m[g].grad # None
        THEN [m[g] EXCEPT !.data = (@ + d) % 2] ELSE m[g]]

\* a < b for two finite losses.
Less(a, b) == a.num * b.den < b.num * a.den

IsFinite(l) == ~l.nan

\* An EarlyStopping whose count is never reset by an improving epoch.
EarlyStoppingNoReset(e, logs, patience, current_epoch) ==
    IF logs.validation_loss = None
    THEN [es |-> e, should_stop |-> FALSE]
    ELSE
      LET current == logs.validation_loss[1]
          seen == [e EXCEPT !.checks = @ + 1]
      IN IF ~IsFinite(current)
         THEN [es |-> [seen EXCEPT !.stopped_epoch = current_epoch], should_stop |-> TRUE]
         ELSE IF e.best_score = None \/ Less(current, e.best_score[1])
         THEN [es |-> [seen EXCEPT !.best_score = Bound(current)], should_stop |-> FALSE]
         ELSE IF e.wait_count + 1 >= patience
         THEN [es |-> [seen EXCEPT !.wait_count = @ + 1, !.stopped_epoch = current_epoch],
               should_stop |-> TRUE]
         ELSE [es |-> [seen EXCEPT !.wait_count = @ + 1], should_stop |-> FALSE]

\* An EarlyStopping that counts its first check as an epoch without
\* improvement.
EarlyStoppingCountsFirst(e, logs, patience, current_epoch) ==
    IF logs.validation_loss = None
    THEN [es |-> e, should_stop |-> FALSE]
    ELSE
      LET current == logs.validation_loss[1]
          seen == [e EXCEPT !.checks = @ + 1]
      IN IF ~IsFinite(current)
         THEN [es |-> [seen EXCEPT !.stopped_epoch = current_epoch], should_stop |-> TRUE]
         ELSE IF e.best_score = None
         THEN [es |-> [seen EXCEPT !.best_score = Bound(current), !.wait_count = 1],
               should_stop |-> 1 >= patience]
         ELSE IF Less(current, e.best_score[1])
         THEN [es |-> [seen EXCEPT !.best_score = Bound(current), !.wait_count = 0],
               should_stop |-> FALSE]
         ELSE IF e.wait_count + 1 >= patience
         THEN [es |-> [seen EXCEPT !.wait_count = @ + 1, !.stopped_epoch = current_epoch],
               should_stop |-> TRUE]
         ELSE [es |-> [seen EXCEPT !.wait_count = @ + 1], should_stop |-> FALSE]

\* EarlyStopping (mode 'min', min_delta 0, check_finite, strict=False) run on
\* the callback metrics at the end of an epoch: the callback's new state and
\* whether it asks the trainer to stop.
EarlyStoppingCheck(e, logs, patience, current_epoch) ==
    IF logs.validation_loss = None
    THEN [es |-> e, should_stop |-> FALSE]
    ELSE
      LET current == logs.validation_loss[1]
          seen == [e EXCEPT !.checks = @ + 1]
      IN IF ~IsFinite(current)
         THEN [es |-> [seen EXCEPT !.stopped_epoch = current_epoch], should_stop |-> TRUE]
         ELSE IF e.best_score = None \/ Less(current, e.best_score[1])
         THEN [es |-> [seen EXCEPT !.best_score = Bound(current), !.wait_count = 0],
               should_stop |-> FALSE]
         ELSE IF e.wait_count + 1 >= patience
         THEN [es |-> [seen EXCEPT !.wait_count = @ + 1, !.stopped_epoch = current_epoch],
               should_stop |-> TRUE]
         ELSE [es |-> [seen EXCEPT !.wait_count = @ + 1], should_stop |-> FALSE]

NoAcc == [sum |-> 0, n |-> 0, nan |-> FALSE]

\* The on_epoch mean of the values logged as 'validation_loss': batches
\* weighted by their size.
Accumulate(a, logged, n) ==
    IF logged = <<>> \/ ~logged[1].on_epoch \/ logged[1].name # "validation_loss" THEN a
    ELSE [sum |-> a.sum + logged[1].value.num, n |-> a.n + n, nan |-> a.nan \/ logged[1].value.nan]

EpochMean(a) == Loss(a.nan, IF a.nan THEN 0 ELSE a.sum, IF a.nan THEN 1 ELSE a.n)

\* trainer.fit begins: the optimizer is configured, the callback is set up,
\* and the sanity check is to run the first two validation batches.
FitStart ==
    /\ pc = "cell15"
    /\ optimizer' = Bound(ConfigureOptimizers(module[1]))
    /\ es' = NewEarlyStopping
    /\ metrics' = NoMetrics
    /\ acc' = NoAcc
    /\ epoch' = 0
    /\ should_stop' = FALSE
    /\ history' = <<>>
    /\ queue' = {i \in AllIndices(env["val_dataloader"][1]) : i < 2 * env["val_dataloader"][1].batch_size}
    /\ pc' = "sanity"
    /\ call' = [op |-> "configure_optimizers"]
    /\ UNCHANGED <<slices, datasets, memo, env, module, cfg>>

\* A step of a validation pass (the sanity check's or an epoch's): the next
\* batch, validation_step on it under no_grad; an error ends the run.
ValidationBatch ==
    /\ pc \in {"sanity", "validate"}
    /\ queue # {}
    /\ \E idxs \in NextBatches(env["val_dataloader"][1], queue) :
         LET batch == FetchBatch(env["val_dataloader"][1], idxs)
             step == IF batch.raised THEN [result |-> batch, logged |-> <<>>]
                     ELSE ValidationStep(module[1], batch.value)
         IN /\ call' = [op |-> "validation_step", args |-> batch, result |-> step.result,
                        logged |-> step.logged]
            /\ queue' = queue \ Range(idxs)
            /\ acc' = Accumulate(acc, step.logged, Len(idxs))
            /\ pc' = IF step.result.raised THEN "failed" ELSE pc
    /\ UNCHANGED <<slices, datasets, memo, env, module, optimizer, cfg, epoch, metrics, es,
                   should_stop, history>>

\* The sanity check ends: what it logged is dropped, no callback has looked
\* at it, and the first training epoch begins.
SanityEnd ==
    /\ pc = "sanity"
    /\ queue = {}
    /\ acc' = NoAcc
    /\ metrics' = NoMetrics
    /\ queue' = AllIndices(env["train_dataloader"][1])
    /\ pc' = "train"
    /\ UNCHANGED <<slices, datasets, call, memo, env, module, optimizer, cfg, epoch, es,
                   should_stop, history>>

\* The moves an optimizer step may make.
Updates == {0, 1}

\* A training batch: the next batch, training_step on it, then zero_grad,
\* backward and the optimizer's step; an error ends the run.
TrainingBatch ==
    /\ pc = "train"
    /\ queue # {}
    /\ \E idxs \in NextBatches(env["train_dataloader"][1], queue) :
         LET batch == FetchBatch(env["train_dataloader"][1], idxs)
             step == IF batch.raised THEN [result |-> batch, logged |-> <<>>]
                     ELSE TrainingStep(module[1], batch.value)
         IN /\ call' = [op |-> "training_step", args |-> batch, result |-> step.result,
                        logged |-> step.logged]
            /\ queue' = queue \ Range(idxs)
            /\ IF step.result.raised
               THEN /\ pc' = "failed"
                    /\ UNCHANGED <<module, metrics>>
               ELSE /\ pc' = pc
                    /\ metrics' = [metrics EXCEPT !.training_loss = Bound(step.logged[1].value)]
                    /\ \E d \in Updates :
                         module' = Bound(AdamStep(Backward(ZeroGrad(module[1], optimizer[1])),
                                                  optimizer[1], d))
    /\ UNCHANGED <<slices, datasets, memo, env, optimizer, cfg, epoch, acc, es, should_stop,
                   history>>

\* The epoch's training batches are through: its validation pass begins.
ValidationStart ==
    /\ pc = "train"
    /\ queue = {}
    /\ acc' = NoAcc
    /\ queue' = AllIndices(env["val_dataloader"][1])
    /\ pc' = "validate"
    /\ UNCHANGED <<slices, datasets, call, memo, env, module, optimizer, cfg, epoch, metrics,
                   es, should_stop, history>>

\* The epoch ends: the epoch mean of 'validation_loss' becomes a callback
\* metric, EarlyStopping checks it, and the loop goes on unless the callback
\* asked to stop or max_epochs is reached.
EpochEnd ==
    /\ pc = "validate"
    /\ queue = {}
    /\ LET logs == [metrics EXCEPT !.validation_loss = IF acc.n = 0 THEN @ ELSE Bound(EpochMean(acc))]
           check == EarlyStoppingCheck(es, logs, cfg.patience, epoch)
       IN /\ metrics' = logs
          /\ es' = check.es
          /\ should_stop' = (should_stop \/ check.should_stop)
          /\ epoch' = epoch + 1
          /\ history' = IF logs.validation_loss = None THEN history
                        ELSE Append(history, logs.validation_loss[1])
          /\ IF should_stop' \/ epoch' >= cfg.max_epochs
             THEN pc' = "done" /\ queue' = {}
             ELSE pc' = "train" /\ queue' = AllIndices(env["train_dataloader"][1])
    /\ UNCHANGED <<slices, datasets, call, memo, env, module, optimizer, cfg, acc>>

\* Accessors that took the module-level names when the class was defined,
\* before any of them was bound.
AccessorAtDefinition(name) ==
    /\ pc \in {"cell9", "cell10", "cell11", "cell12", "cell13", "cell15", "done", "failed"}
    /\ module # Unbound
    /\ call' = [op |-> name, result |-> Raise("NameError", <<>>)]
    /\ UNCHANGED <<slices, datasets, memo, notebookVars, trainerVars>>

\* model.train_dataloader(), model.val_dataloader(), model.test_dataloader():
\* the module-level name, read when called; NameError if it is not bound.
Accessor(name) ==
    /\ pc \in {"cell9", "cell10", "cell11", "cell12", "cell13", "cell15", "done", "failed"}
    /\ module # Unbound
    /\ call' = [op |-> name,
                result |-> IF env[name] = Unbound THEN Raise("NameError", <<>>)
                           ELSE Return(env[name][1], <<>>)]
    /\ UNCHANGED <<slices, datasets, memo, notebookVars, trainerVars>>

Next ==
    \/ Cell8
    \/ Cell9
    \/ Cell10
    \/ Cell11
    \/ Cell12
    \/ Cell13
    \/ FitStart
    \/ ValidationBatch
    \/ SanityEnd
    \/ TrainingBatch
    \/ ValidationStart
    \/ EpochEnd
    \/ \E name \in {"train_dataloader", "val_dataloader", "test_dataloader"} : Accessor(name)

patience == 5
max_epochs == 5

Init == InitNotebook(patience, max_epochs)

\* The notebook as written.
Spec == Init /\ [][Next]_vars

\* The steps the notebook takes by itself: its cells in order, then the loop
\* of trainer.fit.
Run ==
    \/ Cell8
    \/ Cell9
    \/ Cell10
    \/ Cell11
    \/ Cell12
    \/ Cell13
    \/ FitStart
    \/ ValidationBatch
    \/ SanityEnd
    \/ TrainingBatch
    \/ ValidationStart
    \/ EpochEnd

\* Run has a step to take unless the notebook is through or trainer.fit has
\* failed.
RunEnabled == pc \notin {"done", "failed"}

\* The notebook run to its end: every cell is run, and trainer.fit goes on
\* while it has a step to take.  This is WF_vars(Run), with ENABLED <<Run>>_vars
\* written as the state predicate it amounts to.
SpecFair == Init /\ [][Next]_vars /\ ([]<>(~RunEnabled) \/ []<><<Run>>_vars)

MaxPatience == 2    \* patiences 1..MaxPatience
MaxEpochs == 4      \* max_epochs of the trainer in SpecTrainer

InitTrainer == \E p \in 1..MaxPatience : InitNotebook(p, MaxEpochs)

\* The notebook with the callback's patience and the trainer's max_epochs
\* set to other values.
SpecTrainer == InitTrainer /\ [][Next]_vars

\* A pair of another resolution than the NYU pairs (half the size).
HalfItem(p) ==
    [image |-> Img("PIL", HalfSize[1], HalfSize[2], p),
     depth_map |-> Img("PIL", HalfSize[1], HalfSize[2], p)]

\* Slices of n rows in which any row may be of the other resolution.
MixedRows(n) == {r \in [1..n -> {NYUItem(0), NYUItem(1), HalfItem(1)}] :
                    \A i \in 1..n : r[i] \in {NYUItem(i % 2), HalfItem(1)}}

InitSteps ==
    /\ \E tr \in MixedRows(NumTrain), va \in MixedRows(NumVal) :
          slices = [n \in Names |-> IF n = "train" THEN tr ELSE va]
    /\ datasets = [n \in Names |-> Unbound]
    /\ call = NoCall
    /\ memo = None
    /\ pc = "cell8"
    /\ env = [n \in EnvNames |-> Unbound]
    /\ module = Unbound
    /\ optimizer = Unbound
    /\ cfg = [patience |-> MaxPatience, max_epochs |-> MaxEpochs]
    /\ epoch = 0
    /\ queue = {}
    /\ acc = NoAcc
    /\ metrics = NoMetrics
    /\ es = NewEarlyStopping
    /\ should_stop = FALSE
    /\ history = <<>>

\* The notebook run on slices whose rows are not all of one resolution, so
\* that batches of every kind reach the data loaders and the steps.
SpecSteps == InitSteps /\ [][Next]_vars

(***************************************************************************)
(* Claims about the adapter and collate_fn (checked under SpecAdapter).    *)
(***************************************************************************)
InRange(name, idx) == idx >= 0 /\ idx < Len(slices[name])

\* C1: for every adapter, whatever its output_size, and every index i in
\* [0, len(dataset)), the 'labels' tensor __getitem__(i) returns has exactly
\* the shape output_size.
C1_LabelsHaveOutputSize ==
    (call.op = "__getitem__" /\ InRange(call.self, call.idx))
        => /\ ~call.result.raised
           /\ call.result.value.labels.shape = datasets[call.self][1].output_size

SameShapes(batch) ==
    \A i \in 1..Len(batch) :
        /\ batch[i].pixel_values.shape = batch[1].pixel_values.shape
        /\ batch[i].labels.shape = batch[1].labels.shape

\* C7: for every non-empty list of n adapter outputs of one per-item shape,
\* collate_fn returns a mapping with exactly the keys 'pixel_values' and
\* 'labels'; each field has leading dimension n followed by the per-item
\* shape, and item k of the field is item k of the list.
C7_CollateStacks ==
    (call.op = "collate_fn" /\ Len(call.args) > 0 /\ SameShapes(call.args))
        => /\ ~call.result.raised
           /\ DOMAIN call.result.value = {"pixel_values", "labels"}
           /\ \A f \in {"pixel_values", "labels"} :
                 /\ call.result.value[f].shape = <<Len(call.args)>> \o call.args[1][f].shape
                 /\ \A k \in 1..Len(call.args) :
                       call.result.value[f].data[k] = call.args[k][f].data
           /\ call.result.value.pixel_values.shape[1] = call.result.value.labels.shape[1]

C7_Witness ==
    /\ call.op = "collate_fn"
    /\ Len(call.args) = 2
    /\ SameShapes(call.args)
    /\ call.args[1] # call.args[2]
    /\ call.result.value.labels.shape[1] = 2

\* C8: a successful __getitem__(i) returns the same 'pixel_values' and
\* 'labels' as any earlier successful __getitem__(i) on the same adapter,
\* whatever calls were made in between.
C8_GetItemIdempotent ==
    [][(/\ call'.op = "__getitem__"
        /\ ~call'.result.raised
        /\ memo # None
        /\ memo[1].self = call'.self
        /\ memo[1].idx = call'.idx)
          => /\ call'.result.value.pixel_values = memo[1].value.pixel_values
             /\ call'.result.value.labels = memo[1].value.labels]_vars

C8_Witness ==
    /\ call.op = "__getitem__"
    /\ ~call.result.raised
    /\ InRange(call.self, call.idx)
    /\ memo # None
    /\ memo[1].self = call.self
    /\ memo[1].idx = call.idx
    /\ memo[1].between = 2
    /\ Len(slices[call.self]) > 1

\* C9: __getitem__ and __len__ leave the wrapped dataset and the adapter's
\* fields (dataset, processor, output_size) as they were, also when the
\* index makes the call fail; __len__ returns the wrapped dataset's length.
C9_AdapterFrame ==
    [][(call'.op \in {"__getitem__", "__len__"})
          => /\ slices' = slices
             /\ datasets' = datasets
             /\ (call'.op = "__len__"
                   => call'.result.value = Len(slices[datasets[call'.self][1].dataset]))]_vars

C9_Witness ==
    /\ call.op = "__getitem__"
    /\ call.result.raised
    /\ datasets[call.self] # Unbound

(***************************************************************************)
(* Claims about the notebook pipeline (checked under Spec).                *)
(***************************************************************************)
\* C2: every batch that reaches common_step (in training_step or
\* validation_step) has labels of the shape of the model's forward output for
\* that batch, so mse_loss gets two tensors of one shape.
C2_LabelsMatchForwardOutput ==
    (call.op \in {"training_step", "validation_step"} /\ ~call.args.raised)
        => /\ call.args.value.labels.shape
                = Forward(module[1], call.args.value.pixel_values).shape
           /\ ~call.result.raised

C2_Witness ==
    /\ call.op = "training_step"
    /\ ~call.args.raised
    /\ call.args.value.labels.shape = <<batch_size, ResizeHeight, ResizeWidth>>
    /\ env["model_output_size"] # Bound(<<ResizeHeight, ResizeWidth>>)

\* The parameters of the last two encoder layers and of the head.
Trainable(g) ==
    \/ g = ModelHead
    \/ g[1] = "backbone.encoder.layer" /\ g[2] >= NumLayers - 2

\* C3: right after DPTLightningModule() a parameter has requires_grad = True
\* if and only if it belongs to one of the last two encoder layers or to the
\* head.
C3_PartitionAfterInit ==
    pc = "cell9" => \A g \in Groups : module[1][g].requires_grad = Trainable(g)

C3_Witness ==
    /\ pc = "cell9"
    /\ module[1][EncoderLayer[NumLayers]].requires_grad
    /\ ~module[1][EncoderLayer[1]].requires_grad
    /\ ~module[1][ModelNeck].requires_grad

\* C4: once the module is constructed, no step (forward, training_step,
\* validation_step, configure_optimizers, the data-loader accessors, the
\* trainer's backward and optimizer step) changes any parameter's
\* requires_grad.
C4_PartitionFixed ==
    [][module # Unbound
         => \A g \in Groups : module'[1][g].requires_grad = module[1][g].requires_grad]_vars

C4_Witness ==
    /\ pc = "done"
    /\ call.op = "val_dataloader"
    /\ module[1][ModelHead].data # Pretrained[ModelHead].data
    /\ \A g \in Groups : module[1][g].requires_grad = Trainable(g)

\* C5: the optimizer holds every parameter, frozen ones included; whatever
\* training and validation steps have run, every frozen parameter still has
\* its pretrained value (only the last two encoder layers and the head can
\* have changed).
C5_FrozenKeepPretrained ==
    optimizer # Unbound
        => /\ Range(optimizer[1].params) = Groups
           /\ \A g \in Groups : ~Trainable(g) => module[1][g].data = Pretrained[g].data

C5_Witness ==
    /\ pc = "validate"
    /\ epoch >= 1
    /\ call.op = "validation_step"
    /\ BackboneEmbeddings \in Range(optimizer[1].params)
    /\ module[1][EncoderLayer[NumLayers]].data # Pretrained[EncoderLayer[NumLayers]].data
    /\ module[1][BackboneEmbeddings].grad = None

\* C10: training_step computes mse_loss(forward(batch['pixel_values']),
\* batch['labels']), hands exactly that value to self.log once, under the
\* name 'training_loss', and returns it; it logs nothing as
\* 'validation_loss'.
C10_TrainingStepLogsLoss ==
    [][(/\ pc = "train"
        /\ queue # {}
        /\ queue' # queue
        /\ call'.op = "training_step"
        /\ ~call'.args.raised)
          => LET batch == call'.args.value
                 expect == MseLoss(Forward(module[1], batch.pixel_values), batch.labels)
             IN ~expect.raised
                  => /\ call'.result.raised = FALSE
                     /\ call'.result.value = expect.value
                     /\ Len(call'.logged) = 1
                     /\ call'.logged[1].name = "training_loss"
                     /\ call'.logged[1].value = expect.value
                     /\ \A i \in 1..Len(call'.logged) : call'.logged[i].name # "validation_loss"]_vars

C10_Witness ==
    /\ call.op = "training_step"
    /\ ~call.result.raised
    /\ call.args.value.pixel_values.shape[1] = batch_size
    /\ call.result.value.num > 0
    /\ call.logged[1].value = call.result.value

(***************************************************************************)
(* Claims about early stopping (checked under SpecTrainer).                *)
(***************************************************************************)
\* Whether loss l improves (mode 'min') on every loss of prev.
Improves(l, prev) == IsFinite(l) /\ \A i \in 1..Len(prev) : Less(l, prev[i])

\* The number of epochs at the end of h since the last one that improved.
RECURSIVE StaleEpochs(_)
StaleEpochs(h) ==
    IF h = <<>> THEN 0
    ELSE IF Improves(h[Len(h)], SubSeq(h, 1, Len(h) - 1)) THEN 0
    ELSE StaleEpochs(SubSeq(h, 1, Len(h) - 1)) + 1

AllFinite(h) == \A i \in 1..Len(h) : IsFinite(h[i])

\* C6 as stated: the callback halts the loop only once 'validation_loss' has
\* failed to improve for patience consecutive epochs.
C6_HaltsOnlyAfterPatience ==
    (pc = "done" /\ should_stop) => StaleEpochs(history) >= cfg.patience

\* C6, amended: 'validation_loss' is checked once per epoch; the loop halts
\* early exactly when the metric has failed to improve for patience
\* consecutive epochs or is not finite; an improving epoch resets the count;
\* otherwise the loop runs to max_epochs.
C6_EarlyStopping ==
    /\ pc \in {"train", "validate", "done"} => es.checks = epoch /\ Len(history) = epoch
    /\ pc \in {"train", "validate"}
         => /\ ~should_stop
            /\ AllFinite(history)
            /\ StaleEpochs(history) < cfg.patience
            /\ epoch < cfg.max_epochs
    /\ pc = "done"
         => /\ should_stop <=> (StaleEpochs(history) >= cfg.patience \/ ~AllFinite(history))
            /\ ~should_stop => epoch = cfg.max_epochs
    /\ pc \in {"train", "validate", "done"} /\ AllFinite(history)
         => es.wait_count = StaleEpochs(history)

C6_Witness ==
    /\ pc = "done"
    /\ should_stop
    /\ epoch < cfg.max_epochs
    /\ AllFinite(history)
    /\ StaleEpochs(history) = cfg.patience
    /\ \E i \in 2..Len(history) : Improves(history[i], SubSeq(history, 1, i - 1))

(***************************************************************************)
(* Claims about indices out of range (checked under SpecAdapter).          *)
(***************************************************************************)
\* C12 as stated: __getitem__(idx) with idx outside [0, len(dataset)) fails
\* with the wrapped dataset's error, after the one call of the wrapped
\* dataset and nothing else, and returns no mapping.
C12_OutsideRangeFails ==
    (call.op = "__getitem__" /\ ~InRange(call.self, call.idx))
        => /\ call.result.raised
           /\ call.result.calls = <<"dataset">>
           /\ call.result.value = None

\* C12, amended: __getitem__(idx) with idx >= len(dataset) or
\* idx < -len(dataset) fails with the wrapped dataset's own error, after the
\* one call of the wrapped dataset (no retry, no processor, no resize), and
\* returns no mapping; an idx in [-len(dataset), 0) is accepted by the wrapped
\* dataset and gives the mapping of index idx + len(dataset).
C12_IndexErrorPropagates ==
    call.op = "__getitem__"
        => LET self == datasets[call.self][1]
               n == Len(slices[self.dataset])
           IN /\ (call.idx >= n \/ call.idx < 0 - n)
                   => /\ call.result.raised
                      /\ call.result.error = DatasetGetItem(slices[self.dataset], call.idx).error
                      /\ call.result.error = "IndexError"
                      /\ call.result.calls = <<"dataset">>
                      /\ call.result.value = None
              /\ (call.idx < 0 /\ call.idx >= 0 - n)
                   => /\ ~call.result.raised
                      /\ call.result = GetItemOf(self, call.idx + n, slices)

C12_Witness ==
    /\ call.op = "__getitem__"
    /\ call.idx = Len(slices[call.self])
    /\ call.result.raised
    /\ call.result.calls = <<"dataset">>
    /\ memo # None

(***************************************************************************)
(* Claims about the steps and their failures (checked under SpecSteps).    *)
(***************************************************************************)
\* A step of the trainer that ran validation_step on a batch.
ValidationStepRan ==
    /\ pc \in {"sanity", "validate"}
    /\ queue # {}
    /\ queue' # queue
    /\ call'.op = "validation_step"
    /\ ~call'.args.raised

\* C11: for every batch and every parameter state, validation_step returns
\* (or raises) what training_step returns (or raises) for that batch and
\* state, logs the value once, under 'validation_loss' only, aggregated per
\* epoch and not per step, and changes no parameter.
C11_ValidationStepAsTrainingStep ==
    [][ValidationStepRan
         => LET training == TrainingStep(module[1], call'.args.value) IN
            /\ call'.result = training.result
            /\ module' = module
            /\ ~call'.result.raised
                 => /\ Len(call'.logged) = 1
                    /\ call'.logged[1].name = "validation_loss"
                    /\ call'.logged[1].name # training.logged[1].name
                    /\ call'.logged[1].value = training.result.value
                    /\ call'.logged[1].on_epoch
                    /\ ~call'.logged[1].on_step
            /\ call'.result.raised => call'.logged = <<>>]_vars

C11_Witness ==
    /\ pc = "validate"
    /\ epoch >= 1
    /\ call.op = "validation_step"
    /\ ~call.result.raised
    /\ call.args.value.labels.shape[1] = batch_size
    /\ call.result.value.num > 0
    /\ module[1][ModelHead].data # Pretrained[ModelHead].data
    /\ call.logged[1].name = "validation_loss"

\* A step of the trainer that ran training_step or validation_step, or failed
\* to fetch their batch.
StepRan ==
    /\ pc \in {"sanity", "train", "validate"}
    /\ queue # {}
    /\ queue' # queue
    /\ call'.op \in {"training_step", "validation_step"}

\* C13: a failure raised inside a training or validation step (a shape
\* mismatch in mse_loss in particular) is not caught and not retried: the step
\* raises it, trainer.fit ends there, nothing is logged or aggregated for the
\* step, no optimizer step follows it, and no later step or epoch runs.
C13_StepFailureEndsFit ==
    [][/\ (StepRan /\ ~call'.args.raised /\ CommonStep(module[1], call'.args.value).raised)
            => /\ call'.result = CommonStep(module[1], call'.args.value)
               /\ Len(call'.result.calls) = 1
               /\ call'.logged = <<>>
               /\ pc' = "failed"
               /\ metrics' = metrics
               /\ acc' = acc
               /\ module' = module
               /\ <<epoch', es', should_stop', history'>> = <<epoch, es, should_stop, history>>
       /\ (StepRan /\ call'.result.raised) => pc' = "failed" /\ call'.logged = <<>>
       /\ pc = "failed"
            => /\ pc' = "failed"
               /\ call'.op \notin {"training_step", "validation_step"}
               /\ module' = module
               /\ <<optimizer', epoch', queue', acc', metrics', es', should_stop', history'>>
                     = <<optimizer, epoch, queue, acc, metrics, es, should_stop, history>>]_vars

C13_Witness ==
    /\ pc = "failed"
    /\ call.op = "training_step"
    /\ ~call.args.raised
    /\ call.result.raised
    /\ call.result.error = "RuntimeError"
    /\ call.result.calls = <<"mse_loss">>
    /\ call.args.value.labels.shape # Forward(module[1], call.args.value.pixel_values).shape
    /\ metrics.training_loss # None
    /\ epoch = 0

EpochEnds == pc = "validate" /\ queue = {} /\ epoch' = epoch + 1

\* The callback metrics with 'training_loss' taken out.
WithoutTrainingLoss(logs) == [logs EXCEPT !.training_loss = None]

\* C15: at every early-stopping check (the end of each epoch's validation
\* pass) validation_step has logged 'validation_loss' for every validation
\* batch of the epoch, so the metric is there and the check is not skipped:
\* the callback looks at the epoch's mean of 'validation_loss', and
\* 'training_loss' has no part in what it compares.
C15_MetricLoggedAtCheck ==
    [][EpochEnds
         => /\ call.op = "validation_step"
            /\ call.logged # <<>>
            /\ call.logged[1].name = "validation_loss"
            /\ acc.n = Len(slices["val"])
            /\ metrics'.validation_loss = Bound(EpochMean(acc))
            /\ es'.checks = es.checks + 1
            /\ history' = Append(history, EpochMean(acc))
            /\ es'.best_score \in {es.best_score, Bound(EpochMean(acc))}
            /\ es' = EarlyStoppingCheck(es, WithoutTrainingLoss(metrics'), cfg.patience, epoch).es]_vars

C15_Witness ==
    /\ pc = "train"
    /\ epoch >= 2
    /\ es.checks = epoch
    /\ metrics.training_loss # None
    /\ metrics.validation_loss # None
    /\ metrics.training_loss # metrics.validation_loss
    /\ es.best_score = metrics.validation_loss
    /\ Less(history[epoch], history[1])

(***************************************************************************)
(* Claims about the data-loader accessors (checked under Spec).            *)
(***************************************************************************)
AccessorNames == {"train_dataloader", "val_dataloader", "test_dataloader"}

\* A call of one of the accessors: the only step that moves neither the
\* notebook nor trainer.fit on.
AccessorCalled == call'.op \in AccessorNames /\ pc' = pc /\ queue' = queue

\* C16: an accessor reads its module-level name when it is called: it
\* returns the loader bound to the name at that time and fails with NameError
\* while the name is not bound, so train_dataloader() and val_dataloader()
\* fail from the construction of the model until cell 12 has bound the
\* loaders, and test_dataloader() fails always, its name being bound in no
\* state; the calls change nothing trainer.fit reads.
C16_AccessorsReadGlobals ==
    [][/\ env # <<>> => env["test_dataloader"] = Unbound
       /\ AccessorCalled
            => /\ module # Unbound
               /\ call'.result = IF env[call'.op] = Unbound THEN Raise("NameError", <<>>)
                                  ELSE Return(env[call'.op][1], <<>>)
               /\ call'.op = "test_dataloader" => call'.result.raised
               /\ call'.op # "test_dataloader"
                    => (call'.result.raised <=> pc \in {"cell9", "cell10", "cell11", "cell12"})
               /\ ~call'.result.raised
                    => call'.result.value.dataset
                         = (IF call'.op = "train_dataloader" THEN "train" ELSE "val")
               /\ UNCHANGED <<slices, datasets, notebookVars, trainerVars>>]_vars

C16_Witness ==
    /\ pc = "done"
    /\ epoch = max_epochs
    /\ call.op = "train_dataloader"
    /\ ~call.result.raised
    /\ call.result.value = env["train_dataloader"][1]
    /\ env["test_dataloader"] = Unbound

====
